---- MODULE Spec2Model ----
(***************************************************************************)
(* Model of the honeypot turn engine: the /message handler of app/main.py  *)
(* with the session store (app/store.py), the scam detector                *)
(* (app/config.py), the intelligence extractor (app/extract.py), the reply *)
(* composer (app/agent.py) and the final callback (app/callback.py).       *)
(*                                                                         *)
(* Conventions.  Scores and weights are hundredths (0.5 is 50).  A message *)
(* text is a sequence of words; the word " " at either end is surrounding  *)
(* whitespace.  A list the code builds with sorted(set(...)) is the set it *)
(* enumerates.  Python None is NoneText for texts and NoneStr for reply    *)
(* strings.  The em dash of four templates is written "-".                 *)
(*                                                                         *)
(* Assumption.  FinalCallbackPayload(...) in send_final_callback is taken  *)
(* to construct its payload from the session's extractedIntelligence, as   *)
(* its body reads; the outcomes modelled for the call are the three the    *)
(* body distinguishes (2xx, another status, requests.RequestException).    *)
(***************************************************************************)
EXTENDS Integers, Sequences, FiniteSets, TLC

(***************************************************************************)
(* Bounds of the model.                                                    *)
(***************************************************************************)
MaxRequests == 3      \* requests served one after another, templates only
MaxLlmRequests == 2   \* the same with the generation service configured
MaxListLen == 2       \* length of a list of an intelligence record given to
                      \* merge_extraction

(***************************************************************************)
(* Settings (config.py load_settings).  MAX_TURNS is an environment        *)
(* setting; the model runs the configuration MAX_TURNS=3.                  *)
(***************************************************************************)
ScamThreshold == 50
MaxTurns == 3

NoneStr == "<None>"
NoneText == << >>
Absent == [absent |-> TRUE]
SessionIds == {"s1"}

Max(a, b) == IF a >= b THEN a ELSE b
Min(a, b) == IF a <= b THEN a ELSE b

(***************************************************************************)
(* Texts.  str.lower() and str.strip() on a sequence of words.             *)
(***************************************************************************)
LowerWord(w) ==
    CASE w = "Your" -> "your"
      [] w = "BLOCKED" -> "blocked"
      [] w = "KYC" -> "kyc"
      [] w = "Please" -> "please"
      [] OTHER -> w

Lower(text) == [i \in 1..Len(text) |-> LowerWord(text[i])]

RECURSIVE LStrip(_)
LStrip(text) ==
    IF text # << >> /\ Head(text) = " " THEN LStrip(Tail(text)) ELSE text

RECURSIVE RStrip(_)
RStrip(text) ==
    IF text # << >> /\ text[Len(text)] = " "
    THEN RStrip(SubSeq(text, 1, Len(text) - 1))
    ELSE text

Strip(text) == RStrip(LStrip(text))

\* The keywords (lexicon phrases, trigger words, suspicious keywords) that
\* occur as substrings of one lower-cased word.
SubKw(w) ==
    CASE w = "account" -> {"account"}
      [] w = "blocked" -> {"blocked"}
      [] w = "verify" -> {"verify"}
      [] w = "kyc" -> {"kyc"}
      [] w = "immediately" -> {"immediately"}
      [] w = "otp" -> {"otp"}
      [] w = "scam@upi" -> {"upi"}
      [] OTHER -> {}

\* k in lowered: a one-word phrase inside some word, a two-word phrase as
\* two adjacent words.
Contains(lowered, k) ==
    IF k = "account blocked"
    THEN \E i \in 1..(Len(lowered) - 1) :
            lowered[i] = "account" /\ lowered[i + 1] = "blocked"
    ELSE \E i \in 1..Len(lowered) : k \in SubKw(lowered[i])

\* What the patterns of extract.py and config.py find in one raw word.
\* In a run of twenty digits in groups of four the phone pattern takes the
\* whole run and the bank pattern, which stops at eighteen digits, the first
\* sixteen.
PhoneMatch(w) ==
    CASE w = "9876543210" -> {"9876543210"}
      [] w = "1234-5678-9012" -> {"1234-5678-9012"}
      [] w = "1234 5678 9012 3456 7890" -> {"1234 5678 9012 3456 7890"}
      [] OTHER -> {}

BankMatch(w) ==
    CASE w = "9876543210" -> {"9876543210"}
      [] w = "1234-5678-9012" -> {"1234-5678-9012"}
      [] w = "1234 5678 9012 3456 7890" -> {"1234 5678 9012 3456 "}
      [] OTHER -> {}

UpiMatch(w) == IF w = "scam@upi" THEN {"scam@upi"} ELSE {}

UrlMatch(w) == IF w = "http://bad.example/x." THEN {"http://bad.example/x."} ELSE {}

\* re.sub(r"\D", "", value)
Digits(v) ==
    CASE v = "1234-5678-9012" -> "123456789012"
      [] v = "1234 5678 9012 3456 7890" -> "12345678901234567890"
      [] v = "1234 5678 9012 3456 " -> "1234567890123456"
      [] OTHER -> v

DigitCount(v) ==
    CASE v = "9876543210" -> 10
      [] v = "123456789012" -> 12
      [] v = "1234567890123456" -> 16
      [] v = "12345678901234567890" -> 20
      [] OTHER -> 0

\* match.lower().rstrip(").,;!")
CleanUrl(v) == IF v = "http://bad.example/x." THEN "http://bad.example/x" ELSE v

Matches(F(_), text) == UNION {F(text[i]) : i \in 1..Len(text)}

(***************************************************************************)
(* Scam detector (config.py detect_scam_intent).                           *)
(***************************************************************************)
ScamKeywords ==
    [k \in {"urgent", "immediately", "verify", "verification",
            "account blocked", "account", "suspended", "blocked", "kyc",
            "otp", "password", "bank", "fraud prevention team",
            "customer care", "police", "court", "fine", "penalty",
            "payment", "transfer", "upi", "gift card", "bitcoin", "crypto",
            "wire"} |->
        CASE k = "urgent" -> 22 [] k = "immediately" -> 15
          [] k = "verify" -> 18 [] k = "verification" -> 12
          [] k = "account blocked" -> 22 [] k = "account" -> 8
          [] k = "suspended" -> 16 [] k = "blocked" -> 16
          [] k = "kyc" -> 18 [] k = "otp" -> 20
          [] k = "password" -> 12 [] k = "bank" -> 8
          [] k = "fraud prevention team" -> 22
          [] k = "customer care" -> 18 [] k = "police" -> 20
          [] k = "court" -> 20 [] k = "fine" -> 15
          [] k = "penalty" -> 12 [] k = "payment" -> 8
          [] k = "transfer" -> 10 [] k = "upi" -> 18
          [] k = "gift card" -> 18 [] k = "bitcoin" -> 20
          [] k = "crypto" -> 15 [] k = "wire" -> 10]

RECURSIVE SumWeights(_)
SumWeights(ks) ==
    IF ks = {} THEN 0
    ELSE LET k == CHOOSE x \in ks : TRUE
         IN ScamKeywords[k] + SumWeights(ks \ {k})

\* The detector without the clamp of its last line.
DetectUnclamped(text) ==
    LET normalized == Lower(text)
        hits == {k \in DOMAIN ScamKeywords : Contains(normalized, k)}
        url == Matches(UrlMatch, normalized) # {}
        phone == Matches(PhoneMatch, normalized) # {}
    IN [score |-> SumWeights(hits) + (IF url THEN 20 ELSE 0)
                                   + (IF phone THEN 10 ELSE 0),
        indicators |-> hits \cup (IF url THEN {"url"} ELSE {})
                            \cup (IF phone THEN {"phone"} ELSE {})]

detect_scam_intent(text) ==
    LET normalized == Lower(text)
        hits == {k \in DOMAIN ScamKeywords : Contains(normalized, k)}
        url == Matches(UrlMatch, normalized) # {}
        phone == Matches(PhoneMatch, normalized) # {}
        score == SumWeights(hits) + (IF url THEN 20 ELSE 0)
                                  + (IF phone THEN 10 ELSE 0)
    IN [score |-> Min(score, 100),
        indicators |-> hits \cup (IF url THEN {"url"} ELSE {})
                            \cup (IF phone THEN {"phone"} ELSE {})]

(***************************************************************************)
(* Intelligence extractor (extract.py).                                    *)
(***************************************************************************)
SuspiciousKeywords ==
    {"urgent", "verify", "verification", "account", "blocked", "suspended",
     "kyc", "otp", "payment", "transfer", "upi", "gift card", "bitcoin",
     "crypto", "wire", "bank", "police", "court"}

extract_intelligence(text) ==
    LET phone_numbers == {Digits(m) : m \in Matches(PhoneMatch, text)}
        all_accounts == {Digits(m) : m \in Matches(BankMatch, text)}
        lowered == Lower(text)
    IN [bankAccounts |-> {a \in all_accounts :
                             a \notin phone_numbers /\ DigitCount(a) # 10},
        upiIds |-> Matches(UpiMatch, lowered),
        phishingLinks |-> {CleanUrl(m) : m \in Matches(UrlMatch, lowered)},
        phoneNumbers |-> phone_numbers,
        suspiciousKeywords |-> {k \in SuspiciousKeywords : Contains(lowered, k)}]

merge_extraction(existing, incoming) ==
    [bankAccounts |-> existing.bankAccounts \cup incoming.bankAccounts,
     upiIds |-> existing.upiIds \cup incoming.upiIds,
     phishingLinks |-> existing.phishingLinks \cup incoming.phishingLinks,
     phoneNumbers |-> existing.phoneNumbers \cup incoming.phoneNumbers,
     suspiciousKeywords |->
         existing.suspiciousKeywords \cup incoming.suspiciousKeywords]

\* merge_extraction on the lists themselves.  sorted() orders strings by
\* code point: Rank is that order on the values used.
Rank(v) ==
    CASE v = "12345678901234567890" -> 1
      [] v = "9876543210" -> 2
      [] v = "otp" -> 3
      [] v = "upi" -> 4

Elems(list) == {list[i] : i \in DOMAIN list}

RECURSIVE SortedList(_)
SortedList(S) ==
    IF S = {} THEN << >>
    ELSE LET m == CHOOSE x \in S : \A y \in S : Rank(x) <= Rank(y)
         IN <<m>> \o SortedList(S \ {m})

\* MergeLists without set() and sorted().
MergeListsConcat(existing, incoming) == existing \o incoming

\* sorted(set(existing).union(incoming))
MergeLists(existing, incoming) == SortedList(Elems(existing) \cup Elems(incoming))

merge_extraction_lists(existing, incoming) ==
    [bankAccounts |-> MergeLists(existing.bankAccounts, incoming.bankAccounts),
     upiIds |-> MergeLists(existing.upiIds, incoming.upiIds),
     phishingLinks |-> MergeLists(existing.phishingLinks, incoming.phishingLinks),
     phoneNumbers |-> MergeLists(existing.phoneNumbers, incoming.phoneNumbers),
     suspiciousKeywords |->
         MergeLists(existing.suspiciousKeywords, incoming.suspiciousKeywords)]

EmptyIntelligence ==
    [bankAccounts |-> {}, upiIds |-> {}, phishingLinks |-> {},
     phoneNumbers |-> {}, suspiciousKeywords |-> {}]

(***************************************************************************)
(* Reply composer (agent.py).  Reply texts are the strings of the source;  *)
(* the text functions are tabulated over the texts the model can produce.  *)
(***************************************************************************)
STRATEGIES ==
    <<"ASK_EMPLOYEE_ID_BRANCH", "ASK_OFFICIAL_LINK_TICKET",
      "CALL_BACK_CONFIRM_NUMBER", "UPI_COLLECT_REQUEST_CHECK",
      "TECHNICAL_STALL_APP_ISSUE", "TECHNICAL_STALL_PIN_ISSUE">>

StrategySet == {STRATEGIES[i] : i \in 1..Len(STRATEGIES)}

\* STRATEGIES.index(strategy), zero-based
StrategyIndex(strategy) ==
    (CHOOSE i \in 1..Len(STRATEGIES) : STRATEGIES[i] = strategy) - 1

SlotStrategy(slot) ==
    CASE slot = "upi" -> "UPI_COLLECT_REQUEST_CHECK"
      [] slot = "phone" -> "CALL_BACK_CONFIRM_NUMBER"
      [] slot = "phishing" -> "ASK_OFFICIAL_LINK_TICKET"
      [] slot = "bank" -> "ASK_EMPLOYEE_ID_BRANCH"
      [] slot = "suspicious" -> "ASK_OFFICIAL_LINK_TICKET"

StrategyTemplates(strategy) ==
    CASE strategy = "ASK_EMPLOYEE_ID_BRANCH" ->
           <<"Sorry, who is this exactly? What's your name and employee ID?",
             "Which team/branch is this from? Please share your name and ID.",
             "Can you share your name and employee ID so I can verify?",
             "Which branch are you calling from? Name and ID please.">>
      [] strategy = "ASK_OFFICIAL_LINK_TICKET" ->
           <<"Do you have an official link or reference/ticket number?",
             "Can you share a ticket number or an official link I can check?",
             "Is there any official reference ID for this case?",
             "Please send the official link or case reference number.">>
      [] strategy = "CALL_BACK_CONFIRM_NUMBER" ->
           <<"What's the official helpline number? I want to call back and verify.",
             "Can I call the official helpline? Share the number please.",
             "Please give the official customer care number. I'll call back.",
             "Which number should I call to verify this officially?">>
      [] strategy = "UPI_COLLECT_REQUEST_CHECK" ->
           <<"If it's a collect request, what's the UPI handle it's coming from?",
             "Which UPI handle is raising the request? I want to verify in the app.",
             "Please share the UPI handle so I can check the collect request.",
             "What UPI ID is the request from? I can verify on my app.">>
      [] strategy = "TECHNICAL_STALL_APP_ISSUE" ->
           <<"My app is acting up. Can you share details and call back in a bit?",
             "I'm in a meeting-can you send the details and call later?",
             "My phone is restarting. Can you wait a few minutes?",
             "Network is bad right now. Can you share the official link/ticket?">>
      [] strategy = "TECHNICAL_STALL_PIN_ISSUE" ->
           <<"Sir, I'm a bit confused. The app is asking for my PIN but it's not working-what should I do? Also what's the official helpline number or reference ID?",
             "I'm confused-my app keeps asking for my PIN and then errors out. Can you tell me the steps? Also share an official link or ticket number.",
             "My banking app is stuck on the PIN screen and won't proceed. What are the steps to fix it? What's your official helpline number?",
             "The app is asking for my PIN but it's failing. Can you guide me what to do next? Please share the official reference ID.">>
      [] OTHER -> <<"I need a moment to check.">>

\* Texts the generation service is taken to return: a probing question, a
\* request for a secret, a plain sentence, a re-punctuated copy of a
\* template, and a question about a banned subject.
LlmProbe == "Which department are you from? Please share your employee ID."
LlmSecret == "Please share your OTP so I can verify?"
LlmPlain == "Okay, I will do it now."
LlmEcho == "do you have an official link or reference ticket number"
LlmBanned == "What is the password for your account number?"

FinalGuardrailReply ==
    "Sorry, I can't share any codes. Can you send the official link or reference number?"

\* re.sub(r"[^a-z0-9]+", "", text.lower()): texts with the same letters and
\* digits have the same image.
_normalize_text(text) ==
    IF text = LlmEcho
    THEN "Do you have an official link or reference/ticket number?"
    ELSE text

\* The first two sentences of the text.
_limit_sentences(text) ==
    CASE text = StrategyTemplates("TECHNICAL_STALL_PIN_ISSUE")[1] ->
           "Sir, I'm a bit confused. The app is asking for my PIN but it's not working-what should I do?"
      [] text = StrategyTemplates("TECHNICAL_STALL_PIN_ISSUE")[2] ->
           "I'm confused-my app keeps asking for my PIN and then errors out. Can you tell me the steps?"
      [] text = StrategyTemplates("TECHNICAL_STALL_PIN_ISSUE")[3] ->
           "My banking app is stuck on the PIN screen and won't proceed. What are the steps to fix it?"
      [] text = StrategyTemplates("TECHNICAL_STALL_PIN_ISSUE")[4] ->
           "The app is asking for my PIN but it's failing. Can you guide me what to do next?"
      [] OTHER -> text

\* The patterns of _SECRET_ASK_PATTERNS and of _BANNED_PATTERNS that occur
\* in the lower-cased text; no other text of the model contains one.
SecretAskHits(text) ==
    IF text = LlmSecret THEN {"share your otp"} ELSE {}

BannedHits(text) ==
    IF text = LlmBanned THEN {"password", "account number"} ELSE {}

_asks_for_secret(text) == SecretAskHits(text) # {}

_contains_banned(text) == BannedHits(text) # {}

TemplateTexts ==
    UNION {{StrategyTemplates(s)[i] : i \in 1..4} : s \in StrategySet}

\* Texts without a question mark, and texts without any of the keywords of
\* _asks_for_details.
NoQuestionMark ==
    {StrategyTemplates("ASK_OFFICIAL_LINK_TICKET")[4],
     StrategyTemplates("CALL_BACK_CONFIRM_NUMBER")[3],
     StrategyTemplates("UPI_COLLECT_REQUEST_CHECK")[3],
     LlmPlain, LlmEcho,
     "I need a moment to check.", "Sorry, I still don't understand."}

NoDetailKeyword ==
    {StrategyTemplates("TECHNICAL_STALL_APP_ISSUE")[1],
     StrategyTemplates("TECHNICAL_STALL_APP_ISSUE")[2],
     StrategyTemplates("TECHNICAL_STALL_APP_ISSUE")[3],
     LlmPlain, LlmSecret,
     "Sorry, who is this?",
     "I need a moment to check.", "Sorry, I still don't understand."}
     \cup {_limit_sentences(StrategyTemplates("TECHNICAL_STALL_PIN_ISSUE")[i]) :
              i \in 1..4}

_asks_for_details(text) ==
    text \notin NoQuestionMark /\ text \notin NoDetailKeyword

\* int(sha256("<sessionId>:<totalMessagesExchanged>:<strategy>"), 16) % 4,
\* tabulated for session "s1": row n, column STRATEGIES.index(strategy).
TemplateHash ==
    <<<<1, 1, 1, 3, 1, 0>>, <<3, 3, 1, 1, 3, 0>>, <<2, 3, 2, 1, 0, 0>>,
      <<0, 3, 0, 2, 1, 2>>, <<1, 1, 3, 3, 2, 2>>, <<2, 1, 1, 0, 2, 3>>,
      <<2, 0, 2, 2, 2, 2>>, <<0, 3, 1, 2, 1, 1>>>>

_pick_from_templates(strategy, state) ==
    LET options == StrategyTemplates(strategy)
        index == IF strategy \in StrategySet
                 THEN TemplateHash[state.totalMessagesExchanged]
                                  [StrategyIndex(strategy) + 1] % Len(options)
                 ELSE 0
        reply == options[index + 1]
    IN IF reply = state.lastReply
       THEN options[((index + 1) % Len(options)) + 1]
       ELSE reply

\* line 138: a word of the text contains "otp", "pin", "password" or
\* "passcode"; line 142: a word contains "upi", "collect" or "request".
DemandsSecret(t) == \E i \in 1..Len(t) : t[i] \in {"otp"}

MentionsCollect(t) == \E i \in 1..Len(t) : t[i] \in {"scam@upi"}

\* _pick_deterministic_strategy with the test of line 142 before that of
\* line 138.
PickDeterministicCollectFirst(state, scammer_text) ==
    LET t == Lower(scammer_text)
    IN IF MentionsCollect(t)
       THEN "UPI_COLLECT_REQUEST_CHECK"
       ELSE IF DemandsSecret(t)
       THEN "TECHNICAL_STALL_PIN_ISSUE"
       ELSE IF state.missingSlots # << >>
       THEN SlotStrategy(state.missingSlots[1])
       ELSE STRATEGIES[(state.totalMessagesExchanged % Len(STRATEGIES)) + 1]

_pick_deterministic_strategy(state, scammer_text) ==
    LET t == Lower(scammer_text)
    IN IF DemandsSecret(t)
       THEN "TECHNICAL_STALL_PIN_ISSUE"
       ELSE IF MentionsCollect(t)
       THEN "UPI_COLLECT_REQUEST_CHECK"
       ELSE IF state.missingSlots # << >>
       THEN SlotStrategy(state.missingSlots[1])
       ELSE STRATEGIES[(state.totalMessagesExchanged % Len(STRATEGIES)) + 1]

\* What the generation service can answer; NoneStr when it is absent, fails
\* or answers malformed JSON.
LlmStrategyAnswers(llm) ==
    IF llm
    THEN {NoneStr, "NOT_A_STRATEGY", "TECHNICAL_STALL_APP_ISSUE"}
    ELSE {NoneStr}

\* _llm_select_strategy without the membership test of line 222.
LlmSelectUnchecked(answer) == answer

_llm_select_strategy(answer) ==
    IF answer \in StrategySet THEN answer ELSE NoneStr

_llm_generate_reply(llm) ==
    IF llm
    THEN {NoneStr, LlmProbe, LlmSecret, LlmPlain, LlmEcho, LlmBanned}
    ELSE {NoneStr}

AgentNotes(strategy) == <<"Strategy", strategy>>

\* build_agent_reply: the set of results over the answers of the generation
\* service, one call at a time.
ChooseStrategy(state, scammer_text, answer) ==
    IF _llm_select_strategy(answer) # NoneStr
    THEN _llm_select_strategy(answer)
    ELSE _pick_deterministic_strategy(state, scammer_text)

FirstReplies(state, strategy, llm) ==
    {_limit_sentences(IF g # NoneStr THEN g
                      ELSE _pick_from_templates(strategy, state)) :
        g \in _llm_generate_reply(llm)}

SafetyReplies(state, reply, llm) ==
    IF _asks_for_secret(reply) \/ _contains_banned(reply)
    THEN {_limit_sentences(
              IF g # NoneStr THEN g
              ELSE _pick_from_templates("ASK_OFFICIAL_LINK_TICKET", state)) :
            g \in _llm_generate_reply(llm)}
    ELSE {_limit_sentences(reply)}

\* line 372
AltStrategy(strategy) ==
    STRATEGIES[((StrategyIndex(strategy) + 1) % Len(STRATEGIES)) + 1]

AntiRepetitionReplies(state, strategy, reply, llm) ==
    IF _normalize_text(reply) = _normalize_text(state.lastReply)
    THEN LET alt_strategy == AltStrategy(strategy)
         IN {_limit_sentences(IF g # NoneStr THEN g
                              ELSE _pick_from_templates(alt_strategy, state)) :
                g \in _llm_generate_reply(llm)}
    ELSE {_limit_sentences(reply)}

\* The reply as it stands, lines 387-388 left out.
MustProbeOff(state, reply) == reply

\* lines 387-388
MustProbe(state, reply) ==
    IF ~_asks_for_details(reply)
    THEN _pick_from_templates("ASK_OFFICIAL_LINK_TICKET", state)
    ELSE reply

\* FinalGuardrail without the re-check of lines 391-392.
FinalGuardrailOff(reply) == reply

FinalGuardrail(reply) ==
    IF _asks_for_secret(reply) \/ _contains_banned(reply)
    THEN FinalGuardrailReply
    ELSE reply

build_agent_reply(state, scammer_text, llm) ==
    UNION {
      LET strategy == ChooseStrategy(state, scammer_text, answer)
      IN UNION {
           UNION {
             {[reply |-> FinalGuardrail(MustProbe(state, r3)),
               agentNotes |-> AgentNotes(strategy)] :
                 r3 \in AntiRepetitionReplies(state, strategy, r2, llm)} :
             r2 \in SafetyReplies(state, r1, llm)} :
           r1 \in FirstReplies(state, strategy, llm)} :
      answer \in LlmStrategyAnswers(llm)}

(***************************************************************************)
(* Session store (store.py) and session state (models.py SessionState).    *)
(* get and initialize return deep copies: values, here.                    *)
(***************************************************************************)
InitialState(session_id) ==
    [sessionId |-> session_id,
     scamScore |-> 0,
     scamConfirmed |-> FALSE,
     agentActive |-> FALSE,
     totalMessagesExchanged |-> 0,
     lastReply |-> NoneStr,
     turnsSinceChange |-> 0,
     terminated |-> FALSE,
     finalCallbackSent |-> FALSE,
     extractedIntelligence |-> EmptyIntelligence,
     lastScammerMessage |-> NoneText,
     agentNotes |-> << >>,
     missingSlots |-> <<"upi", "phone", "phishing", "bank", "suspicious">>,
     recentScammer |-> << >>,
     recentHoneypot |-> << >>]

StoreGet(table, session_id) == table[session_id]

StoreUpsert(table, state) == [table EXCEPT ![state.sessionId] = state]

StoreInitialize(table, session_id) ==
    [table EXCEPT ![session_id] = InitialState(session_id)]

(***************************************************************************)
(* Requests.  A request is the JSON body that passed the body guard.       *)
(***************************************************************************)
NotAString == "<not a string>"

\* str.strip() of a session identifier
StripId(raw) ==
    CASE raw = " s1 " -> "s1"
      [] raw = "  " -> ""
      [] OTHER -> raw

MsgHello == <<"hello">>
MsgKyc ==
    <<"Your", "account", "will", "be", "BLOCKED", "unless", "you", "verify",
      "KYC", "immediately", "call", "9876543210">>
MsgKycPlain ==
    <<" ", "your", "account", "will", "be", "blocked", "unless", "you",
      "verify", "kyc", "immediately", "call", "9876543210", " ">>
MsgVerify == <<"Please", "verify">>
MsgCall == <<"call", "9876543210">>
MsgPay ==
    <<"pay", "scam@upi", "http://bad.example/x.", "1234 5678 9012 3456 7890">>
MsgOtp == <<"share", "your", "otp">>
MsgOtpUpi == <<"share", "otp", "to", "scam@upi">>
MsgBlank == <<" ">>

Messages == {MsgHello, MsgKyc, MsgKycPlain, MsgCall, MsgOtp, MsgPay, MsgOtpUpi}

Request(sid, sender, text, ts, hist, histOk) ==
    [sessionId |-> sid, sender |-> sender, text |-> text, timestamp |-> ts,
     history |-> hist, historyValid |-> histOk]

\* IncomingRequest.model_validate(payload)
Validates(req) ==
    /\ req.sessionId # NotAString
    /\ req.sender \in {"scammer", "user"}
    /\ req.timestamp
    /\ req.historyValid

\* The sanitised shape validates: the timestamp is filled in, the history is
\* kept when it is a list.
SanitizedValidates(req) ==
    /\ req.sessionId # NotAString
    /\ req.sender # NotAString
    /\ req.sender \in {"scammer", "user"}
    /\ req.historyValid

\* Which return of handle_message the request reaches.
PathOf(req) ==
    IF Strip(req.text) = << >> THEN "hello"
    ELSE IF Validates(req) \/ SanitizedValidates(req)
    THEN (IF StripId(req.sessionId) = "" THEN "hello" ELSE "normal")
    ELSE IF req.sessionId # NotAString /\ StripId(req.sessionId) # ""
    THEN "fallback"
    ELSE "stateless"

\* Lengths of the caller's conversationHistory: none, and the length at
\* which line 287 fires; the length just below it comes with one message.
HistoryLengths == {0, MaxTurns - 1}

\* Texts of the requests whose sender is "user".
OperatorMessages == {MsgHello, MsgOtp}

NormalRequests ==
    {Request("s1", "scammer", text, TRUE, n, TRUE) :
        text \in Messages, n \in HistoryLengths}
    \cup {Request("s1", "user", text, TRUE, n, TRUE) :
             text \in OperatorMessages, n \in HistoryLengths}
    \cup {Request("s1", "scammer", MsgOtp, TRUE, MaxTurns - 2, TRUE),
          Request(" s1 ", "scammer", MsgKyc, TRUE, 0, TRUE),
          Request("s1", "scammer", MsgOtp, FALSE, 0, TRUE)}

\* The requests served on the normal path while the generation service is
\* configured.
LlmRequests ==
    {Request("s1", "scammer", text, TRUE, 0, TRUE) :
        text \in {MsgHello, MsgKyc, MsgOtp}}
    \cup {Request("s1", "scammer", MsgKyc, TRUE, MaxTurns - 1, TRUE),
          Request("s1", "user", MsgHello, TRUE, 0, TRUE)}

FallbackRequests ==
    {Request("s1", "bot", MsgHello, TRUE, 0, TRUE),
     Request(" s1 ", NotAString, MsgKyc, TRUE, 0, TRUE),
     Request("s1", "scammer", MsgKyc, TRUE, 1, FALSE)}

OtherRequests ==
    {Request("s1", "scammer", MsgBlank, TRUE, 0, TRUE),
     Request("  ", "scammer", MsgKyc, TRUE, 0, TRUE),
     Request("  ", "bot", MsgKyc, TRUE, 0, TRUE),
     Request(NotAString, "scammer", MsgKyc, TRUE, 0, TRUE)}

NoRequest == Request(NotAString, NotAString, << >>, FALSE, 0, FALSE)

(***************************************************************************)
(* handle_message (main.py), in the order of its statements.               *)
(***************************************************************************)
TriggerKeywords == {"otp", "upi", "blocked", "verify", "kyc"}

\* lines 232-243
MissingSlots(intel) ==
    (IF intel.upiIds = {} THEN <<"upi">> ELSE << >>)
    \o (IF intel.phoneNumbers = {} THEN <<"phone">> ELSE << >>)
    \o (IF intel.phishingLinks = {} THEN <<"phishing">> ELSE << >>)
    \o (IF intel.bankAccounts = {} THEN <<"bank">> ELSE << >>)
    \o (IF intel.suspiciousKeywords = {} THEN <<"suspicious">> ELSE << >>)

\* Confirm storing the latest detector score instead of the running maximum.
ConfirmLatestScore(state, incoming_text) ==
    LET detector == detect_scam_intent(incoming_text)
        score == detector.score
        confirmed ==
            \/ score >= ScamThreshold
            \/ \E k \in TriggerKeywords : Contains(Lower(incoming_text), k)
    IN [state EXCEPT !.scamScore = score,
                     !.scamConfirmed = @ \/ confirmed,
                     !.agentActive = @ \/ confirmed]

\* Confirm without the trigger keywords of line 225.
ConfirmThresholdOnly(state, incoming_text) ==
    LET detector == detect_scam_intent(incoming_text)
        score == Max(state.scamScore, detector.score)
        confirmed == score >= ScamThreshold
    IN [state EXCEPT !.scamScore = score,
                     !.scamConfirmed = @ \/ confirmed,
                     !.agentActive = @ \/ confirmed]

\* lines 213-227
Confirm(state, incoming_text) ==
    LET detector == detect_scam_intent(incoming_text)
        score == Max(state.scamScore, detector.score)
        confirmed ==
            \/ score >= ScamThreshold
            \/ \E k \in TriggerKeywords : Contains(Lower(incoming_text), k)
    IN [state EXCEPT !.scamScore = score,
                     !.scamConfirmed = @ \/ confirmed,
                     !.agentActive = @ \/ confirmed]

\* Extract keeping only what the latest message holds.
ExtractReplacing(state, incoming_text) ==
    LET merged == extract_intelligence(incoming_text)
    IN [state EXCEPT !.extractedIntelligence = merged,
                     !.missingSlots = MissingSlots(merged)]

\* Extract without the recomputation of lines 232-243.
ExtractKeepingSlots(state, incoming_text) ==
    LET merged == merge_extraction(state.extractedIntelligence,
                                   extract_intelligence(incoming_text))
    IN [state EXCEPT !.extractedIntelligence = merged]

\* lines 229-243
Extract(state, incoming_text) ==
    LET merged == merge_extraction(state.extractedIntelligence,
                                   extract_intelligence(incoming_text))
    IN [state EXCEPT !.extractedIntelligence = merged,
                     !.missingSlots = MissingSlots(merged)]

\* TrackChange with the counter reset on every counterpart message.
TrackChangeAlwaysReset(state, incoming_text) ==
    [state EXCEPT !.turnsSinceChange = 0,
                  !.lastScammerMessage = Lower(Strip(incoming_text))]

\* TrackChange comparing and storing the text as received.
TrackChangeRawText(state, incoming_text) ==
    IF state.lastScammerMessage # NoneText
       /\ incoming_text = state.lastScammerMessage
    THEN [state EXCEPT !.turnsSinceChange = @ + 1]
    ELSE [state EXCEPT !.turnsSinceChange = 0,
                       !.lastScammerMessage = incoming_text]

\* lines 245-250
TrackChange(state, incoming_text) ==
    LET normalized == Lower(Strip(incoming_text))
    IN IF state.lastScammerMessage # NoneText
          /\ normalized = state.lastScammerMessage
       THEN [state EXCEPT !.turnsSinceChange = @ + 1]
       ELSE [state EXCEPT !.turnsSinceChange = 0,
                          !.lastScammerMessage = normalized]

\* Receive counting only the requests of the counterpart.
ReceiveCountingScammer(state, req) ==
    IF req.sender = "scammer"
    THEN TrackChange(Extract(Confirm(
             [state EXCEPT !.totalMessagesExchanged = @ + 1],
             req.text), req.text), req.text)
    ELSE state

\* Lines 210-250 without the test of the sender of line 212.
ReceiveAnySender(state, req) ==
    LET counted == [state EXCEPT !.totalMessagesExchanged = @ + 1]
    IN TrackChange(Extract(Confirm(counted, req.text), req.text), req.text)

\* lines 210-250
Receive(state, req) ==
    LET counted == [state EXCEPT !.totalMessagesExchanged = @ + 1]
    IN IF req.sender = "scammer"
       THEN TrackChange(Extract(Confirm(counted, req.text), req.text), req.text)
       ELSE counted

\* The reply as composed, lines 266-270 left out.
KeepDuplicate(reply_text, lastReply) == reply_text

\* lines 266-270
AvoidDuplicate(reply_text, lastReply) ==
    IF reply_text = lastReply
    THEN (IF "I need a moment to check." = lastReply
          THEN "Sorry, I still don't understand."
          ELSE "I need a moment to check.")
    ELSE reply_text

\* lines 252-272: the states the reply step can leave, over the answers of
\* the generation service.
Reply(state, req, llm) ==
    IF state.agentActive
    THEN {[state EXCEPT !.agentNotes = r.agentNotes,
                        !.lastReply = AvoidDuplicate(r.reply, state.lastReply)] :
             r \in build_agent_reply(state, req.text, llm)}
    ELSE {[state EXCEPT
             !.lastReply = AvoidDuplicate("Sorry, who is this?", state.lastReply)]}

\* line 276
ScammerTurns(req) == req.history + 1

\* lines 277-282
HasIntel(state) ==
    \/ state.extractedIntelligence.bankAccounts # {}
    \/ state.extractedIntelligence.upiIds # {}
    \/ state.extractedIntelligence.phishingLinks # {}
    \/ state.extractedIntelligence.phoneNumbers # {}

\* TerminationRule without the rule of line 283.
TerminationRuleNoIntelStall(state, req) ==
    \/ state.turnsSinceChange >= 2
    \/ ScammerTurns(req) >= MaxTurns

\* lines 283-288
TerminationRule(state, req) ==
    \/ HasIntel(state) /\ state.turnsSinceChange >= 1
    \/ state.turnsSinceChange >= 2
    \/ ScammerTurns(req) >= MaxTurns

\* Terminate assigning the flag instead of only raising it.
TerminateAssigning(state, req) ==
    [state EXCEPT !.terminated = state.scamConfirmed /\ TerminationRule(state, req)]

\* Terminate without the guard of line 275.
TerminateUnguarded(state, req) ==
    IF TerminationRule(state, req)
    THEN [state EXCEPT !.terminated = TRUE]
    ELSE state

\* lines 275-288
Terminate(state, req) ==
    IF state.scamConfirmed /\ TerminationRule(state, req)
    THEN [state EXCEPT !.terminated = TRUE]
    ELSE state

\* ShouldSendCallback without "not state.finalCallbackSent".
ShouldSendCallbackAgain(state) == state.terminated /\ state.scamConfirmed

\* ShouldSendCallback without "state.terminated".
ShouldSendCallbackEarly(state) ==
    state.scamConfirmed /\ ~state.finalCallbackSent

\* line 291
ShouldSendCallback(state) ==
    state.terminated /\ state.scamConfirmed /\ ~state.finalCallbackSent

(***************************************************************************)
(* send_final_callback (callback.py).                                      *)
(***************************************************************************)
CallbackOutcomes == {"2xx", "status", "exception"}

_build_agent_notes(state) ==
    LET intel == state.extractedIntelligence
        details ==
            (IF intel.phishingLinks # {} THEN <<"Phishing link provided">>
             ELSE << >>)
            \o (IF intel.upiIds # {} \/ intel.bankAccounts # {}
                THEN <<"Payment details requested">> ELSE << >>)
            \o (IF intel.phoneNumbers # {} THEN <<"Phone number shared">>
                ELSE << >>)
            \o (IF intel.suspiciousKeywords # {}
                THEN <<"Suspicious language used">> ELSE << >>)
    IN IF details = << >>
       THEN <<"Scammer engaged with pressure tactics">>
       ELSE details

\* A payload that counts the turns before the one under way.
PayloadBeforeTurn(state) ==
    [sessionId |-> state.sessionId,
     scamDetected |-> state.scamConfirmed,
     totalMessagesExchanged |-> state.totalMessagesExchanged - 1,
     extractedIntelligence |-> state.extractedIntelligence,
     agentNotes |-> IF state.agentNotes # << >> THEN state.agentNotes
                    ELSE _build_agent_notes(state)]

FinalCallbackPayload(state) ==
    [sessionId |-> state.sessionId,
     scamDetected |-> state.scamConfirmed,
     totalMessagesExchanged |-> state.totalMessagesExchanged,
     extractedIntelligence |-> state.extractedIntelligence,
     agentNotes |-> IF state.agentNotes # << >> THEN state.agentNotes
                    ELSE _build_agent_notes(state)]

\* the return value of send_final_callback
Sent(outcome) == outcome = "2xx"

\* AfterCallback marking the session only when the POST succeeded.
AfterCallbackOnSuccess(state, outcome) ==
    [state EXCEPT !.finalCallbackSent = Sent(outcome)]

\* lines 292-293
AfterCallback(state, outcome) == [state EXCEPT !.finalCallbackSent = TRUE]

_safe_success(reply) == [code |-> 200, status |-> "success", reply |-> reply]

\* lines 171-176
fallback_options ==
    <<"I'm a bit confused. Which department is this and what's your employee ID?",
      "Can you share the official helpline number and a reference ID?",
      "I can't verify this right now. Do you have an official link or ticket number?",
      "Please share your branch/department and a callback number.">>

\* lines 183-188
Fallback(state) ==
    LET counted == [state EXCEPT !.totalMessagesExchanged = @ + 1]
        idx == counted.totalMessagesExchanged % Len(fallback_options)
        reply == IF fallback_options[idx + 1] = counted.lastReply
                 THEN fallback_options[((idx + 1) % Len(fallback_options)) + 1]
                 ELSE fallback_options[idx + 1]
    IN [counted EXCEPT !.lastReply = reply]

\* store.get, then store.initialize when the session is unseen
Load(table, session_id) ==
    IF StoreGet(table, session_id) = Absent
    THEN InitialState(session_id)
    ELSE StoreGet(table, session_id)

(***************************************************************************)
(* State.                                                                  *)
(*   sessions     the table of the session store                           *)
(*   callbackLog  the payloads send_final_callback was invoked with, each  *)
(*                with the outcome of its POST                             *)
(*   response     the response of the request served last                  *)
(*   llm          whether the generation service is configured             *)
(*   reqCount, lastReq   how many requests were served, and the last one   *)
(*   pc, local, hreq     per concurrent handler: its position, its copy of *)
(*                the session and its request                              *)
(*   served       requests each concurrent handler has completed           *)
(*   extracted    the intelligence extracted by the concurrent handlers    *)
(*                that have completed                                      *)
(*   streak       the counterpart messages as received: the latest one,    *)
(*                normalised, and how many identical ones came right       *)
(*                before it                                                *)
(*   calc         a function called on its own: its arguments and results  *)
(*   objects      the SessionState objects of a store and of its caller,    *)
(*                by reference: the heap, the store's table of references   *)
(*                and the references the caller holds                       *)
(*   lock         the handler that holds the store's lock                   *)
(***************************************************************************)
VARIABLES sessions, callbackLog, response, llm, reqCount, lastReq,
          pc, local, hreq, served, extracted, streak, calc, objects, lock

vars == <<sessions, callbackLog, response, llm, reqCount, lastReq,
          pc, local, hreq, served, extracted, streak, calc, objects, lock>>

\* No call of a function on its own is under way.
NoCalc == [stage |-> "none", a |-> << >>, b |-> << >>, c |-> << >>,
           out |-> << >>]

\* No object is allocated.
NoObjects == [heap |-> << >>, table |-> << >>, held |-> {}, op |-> "none"]

\* Nobody holds the lock.
NoHolder == 0

Handlers == {1, 2}

handlerVars == <<pc, local, hreq, served, extracted>>

NoResponse == [code |-> 0, status |-> "none", reply |-> NoneStr]

InitCommon ==
    /\ sessions = [id \in SessionIds |-> Absent]
    /\ callbackLog = << >>
    /\ response = NoResponse
    /\ reqCount = 0
    /\ lastReq = NoRequest
    /\ pc = [h \in Handlers |-> "idle"]
    /\ local = [h \in Handlers |-> Absent]
    /\ hreq = [h \in Handlers |-> NoRequest]
    /\ served = [h \in Handlers |-> 0]
    /\ extracted = EmptyIntelligence
    /\ streak = [last |-> NoneText, run |-> 0]

Init ==
    /\ InitCommon /\ llm \in BOOLEAN
    /\ calc = NoCalc /\ objects = NoObjects /\ lock = NoHolder

\* More requests can be served within the bounds.
MoreRequests == reqCount < (IF llm THEN MaxLlmRequests ELSE MaxRequests)

(***************************************************************************)
(* Requests served one after another: each action is one whole request.    *)
(***************************************************************************)
\* lines 196-298
HandleMessage ==
    /\ MoreRequests
    /\ \E req \in (IF llm THEN LlmRequests ELSE NormalRequests) :
         /\ PathOf(req) = "normal"
         /\ \E replied \in Reply(Receive(Load(sessions, StripId(req.sessionId)),
                                         req), req, llm) :
              LET state == Terminate(replied, req)
              IN /\ IF ShouldSendCallback(state)
                    THEN \E outcome \in CallbackOutcomes :
                           /\ callbackLog' =
                                  Append(callbackLog,
                                         [payload |-> FinalCallbackPayload(state),
                                          outcome |-> outcome])
                           /\ sessions' =
                                  StoreUpsert(sessions,
                                              AfterCallback(state, outcome))
                    ELSE /\ callbackLog' = callbackLog
                         /\ sessions' = StoreUpsert(sessions, state)
                 /\ response' = _safe_success(state.lastReply)
         /\ lastReq' = req
         /\ streak' = IF req.sender # "scammer" THEN streak
                      ELSE IF streak.last = Lower(Strip(req.text))
                      THEN [streak EXCEPT !.run = @ + 1]
                      ELSE [last |-> Lower(Strip(req.text)), run |-> 0]
    /\ reqCount' = reqCount + 1
    /\ UNCHANGED <<calc, objects, lock, llm, handlerVars>>

\* lines 177-190
HandleFallback ==
    /\ MoreRequests
    /\ \E req \in FallbackRequests :
         /\ PathOf(req) = "fallback"
         /\ LET state == Fallback(Load(sessions, StripId(req.sessionId)))
            IN /\ sessions' = StoreUpsert(sessions, state)
               /\ response' = _safe_success(state.lastReply)
         /\ lastReq' = req
    /\ reqCount' = reqCount + 1
    /\ UNCHANGED <<calc, objects, lock, callbackLog, llm, handlerVars, streak>>

\* lines 130-141, 192-193, 196-199: the requests answered without a session
HandleProbe ==
    /\ MoreRequests
    /\ \E req \in OtherRequests :
         /\ \/ /\ PathOf(req) = "hello"
               /\ response' = _safe_success("Hello")
            \/ /\ PathOf(req) = "stateless"
               /\ \E idx \in 0..(Len(fallback_options) - 1) :
                    response' = _safe_success(fallback_options[idx + 1])
         /\ lastReq' = req
    /\ reqCount' = reqCount + 1
    /\ UNCHANGED <<calc, objects, lock, sessions, callbackLog, llm, handlerVars, streak>>

Next == HandleMessage \/ HandleFallback \/ HandleProbe

Spec == Init /\ [][Next]_vars

(***************************************************************************)
(* Handlers that run at the same time on several threads over the one      *)
(* store.  Each of get, initialize and upsert runs under the store's lock  *)
(* and is one step; what a handler does to its own copy between them is    *)
(* one step; the POST of the callback is one step.                         *)
(***************************************************************************)
MaxConcRequests == 2  \* requests each concurrent handler serves

ConcRequests ==
    {Request("s1", "scammer", MsgKyc, TRUE, 0, TRUE),
     Request("s1", "scammer", MsgKyc, TRUE, MaxTurns - 1, TRUE),
     Request("s1", "user", MsgOtp, TRUE, 0, TRUE)}

InitConc ==
    /\ InitCommon /\ llm = FALSE
    /\ calc = NoCalc /\ objects = NoObjects /\ lock = NoHolder

\* line 201
CGet(h) ==
    /\ pc[h] = "idle"
    /\ served[h] < MaxConcRequests
    /\ \E req \in ConcRequests :
         /\ PathOf(req) = "normal"
         /\ hreq' = [hreq EXCEPT ![h] = req]
         /\ LET state == StoreGet(sessions, StripId(req.sessionId))
            IN IF state = Absent
               THEN /\ pc' = [pc EXCEPT ![h] = "initialize"]
                    /\ local' = local
               ELSE /\ pc' = [pc EXCEPT ![h] = "process"]
                    /\ local' = [local EXCEPT ![h] = state]
    /\ UNCHANGED <<calc, objects, lock, sessions, callbackLog, response, llm, reqCount, lastReq,
                   served, extracted, streak>>

\* lines 202-203
CInitialize(h) ==
    /\ pc[h] = "initialize"
    /\ sessions' = StoreInitialize(sessions, StripId(hreq[h].sessionId))
    /\ local' = [local EXCEPT ![h] = InitialState(StripId(hreq[h].sessionId))]
    /\ pc' = [pc EXCEPT ![h] = "process"]
    /\ UNCHANGED <<calc, objects, lock, callbackLog, response, llm, reqCount, lastReq, hreq,
                   served, extracted, streak>>

\* lines 206-291
CProcess(h) ==
    /\ pc[h] = "process"
    /\ \E replied \in Reply(Receive(local[h], hreq[h]), hreq[h], llm) :
         LET state == Terminate(replied, hreq[h])
         IN /\ local' = [local EXCEPT ![h] = state]
            /\ pc' = [pc EXCEPT ![h] = IF ShouldSendCallback(state)
                                       THEN "callback" ELSE "upsert"]
    /\ UNCHANGED <<calc, objects, lock, sessions, callbackLog, response, llm, reqCount, lastReq,
                   hreq, served, extracted, streak>>

\* lines 292-295
CCallback(h) ==
    /\ pc[h] = "callback"
    /\ \E outcome \in CallbackOutcomes :
         /\ callbackLog' =
                Append(callbackLog,
                       [payload |-> FinalCallbackPayload(local[h]),
                        outcome |-> outcome])
         /\ local' = [local EXCEPT ![h] = AfterCallback(local[h], outcome)]
    /\ pc' = [pc EXCEPT ![h] = "upsert"]
    /\ UNCHANGED <<calc, objects, lock, sessions, response, llm, reqCount, lastReq, hreq, served,
                   extracted, streak>>

\* lines 297-298
CUpsert(h) ==
    /\ pc[h] = "upsert"
    /\ sessions' = StoreUpsert(sessions, local[h])
    /\ response' = _safe_success(local[h].lastReply)
    /\ pc' = [pc EXCEPT ![h] = "idle"]
    /\ served' = [served EXCEPT ![h] = @ + 1]
    /\ extracted' =
           IF hreq[h].sender = "scammer"
           THEN merge_extraction(extracted, extract_intelligence(hreq[h].text))
           ELSE extracted
    /\ UNCHANGED <<calc, objects, lock, callbackLog, llm, reqCount, lastReq, local, hreq, streak>>

NextConc ==
    \E h \in Handlers :
        CGet(h) \/ CInitialize(h) \/ CProcess(h) \/ CCallback(h) \/ CUpsert(h)

SpecConc == InitConc /\ [][NextConc]_vars

(***************************************************************************)
(* merge_extraction called on its own, on records whose lists need not be  *)
(* sorted or free of duplicates.                                           *)
(***************************************************************************)
ListsOf(V) == UNION {[1..k -> V] : k \in 0..MaxListLen}

IntelRecords ==
    {[bankAccounts |-> << >>, upiIds |-> << >>, phishingLinks |-> << >>,
      phoneNumbers |-> p, suspiciousKeywords |-> k] :
        p \in ListsOf({"9876543210", "12345678901234567890"}),
        k \in {<< >>, <<"upi", "otp">>}}

programVars == <<sessions, callbackLog, response, llm, reqCount, lastReq,
                 pc, local, hreq, served, extracted, streak>>

InitMerge ==
    /\ InitCommon
    /\ llm = FALSE
    /\ objects = NoObjects /\ lock = NoHolder
    /\ \E a \in IntelRecords, b \in IntelRecords, c \in IntelRecords :
          calc = [stage |-> "args", a |-> a, b |-> b, c |-> c, out |-> << >>]

\* merge(a, merge(a, b)) and merge(a, b)
MergeTwice ==
    /\ calc.stage = "args"
    /\ calc' = [calc EXCEPT
                  !.stage = "twice",
                  !.out = <<merge_extraction_lists(
                                calc.a, merge_extraction_lists(calc.a, calc.b)),
                            merge_extraction_lists(calc.a, calc.b)>>]
    /\ UNCHANGED <<programVars, objects, lock>>

\* merge(a, b) and merge(b, a)
MergeSwapped ==
    /\ calc.stage = "args"
    /\ calc' = [calc EXCEPT
                  !.stage = "swapped",
                  !.out = <<merge_extraction_lists(calc.a, calc.b),
                            merge_extraction_lists(calc.b, calc.a)>>]
    /\ UNCHANGED <<programVars, objects, lock>>

\* merge(a, merge(b, c)) and merge(merge(a, b), c)
MergeGrouped ==
    /\ calc.stage = "args"
    /\ calc' = [calc EXCEPT
                  !.stage = "grouped",
                  !.out = <<merge_extraction_lists(
                                calc.a, merge_extraction_lists(calc.b, calc.c)),
                            merge_extraction_lists(
                                merge_extraction_lists(calc.a, calc.b), calc.c)>>]
    /\ UNCHANGED <<programVars, objects, lock>>

NextMerge == MergeTwice \/ MergeSwapped \/ MergeGrouped

SpecMerge == InitMerge /\ [][NextMerge]_vars

(***************************************************************************)
(* The store (store.py) with its objects held by reference, and one caller *)
(* that calls get, initialize and upsert and assigns to the fields of the  *)
(* objects it holds.  heap is the sequence of objects allocated, table the *)
(* reference _sessions holds for each session (0 for none), held the       *)
(* references the caller has.                                              *)
(***************************************************************************)
MaxObjects == 5       \* SessionState objects allocated
MaxAssignments == 2   \* value of the counter a caller assigns up to

\* What store.get would return for the session now.
Stored(id) ==
    IF objects.table[id] = 0 THEN Absent ELSE objects.heap[objects.table[id]]

\* state.model_copy(deep=True): a new object with the same value
DeepCopy(heap, ref) == Append(heap, heap[ref])

\* line 23: _sessions[state.sessionId] = state
UpsertReference(o, ref) ==
    [o EXCEPT !.table[o.heap[ref].sessionId] = ref, !.op = "upsert"]

InitStore ==
    /\ InitCommon /\ llm = FALSE
    /\ calc = NoCalc /\ lock = NoHolder
    /\ objects = [heap |-> << >>, table |-> [id \in SessionIds |-> 0],
                  held |-> {}, op |-> "none"]

\* lines 14-19
SGet ==
    /\ Len(objects.heap) < MaxObjects
    /\ \E id \in SessionIds :
         /\ objects.table[id] # 0
         /\ objects' = [objects EXCEPT
                          !.heap = DeepCopy(objects.heap, objects.table[id]),
                          !.held = @ \cup {Len(objects.heap) + 1},
                          !.op = "get"]
    /\ UNCHANGED <<programVars, calc, lock>>

\* lines 25-41
SInitialize ==
    /\ Len(objects.heap) + 1 < MaxObjects
    /\ \E id \in SessionIds :
         LET created == Append(objects.heap, InitialState(id))
         IN objects' = [objects EXCEPT
                          !.heap = DeepCopy(created, Len(created)),
                          !.table[id] = Len(created),
                          !.held = @ \cup {Len(created) + 1},
                          !.op = "initialize"]
    /\ UNCHANGED <<programVars, calc, lock>>

\* lines 21-23
SUpsert ==
    /\ \E ref \in objects.held : objects' = UpsertReference(objects, ref)
    /\ UNCHANGED <<programVars, calc, lock>>

\* The caller assigns to fields of an object it holds, as handle_message
\* does at main.py 210 and 284.
SAssign ==
    /\ \E ref \in objects.held :
         /\ objects.heap[ref].totalMessagesExchanged < MaxAssignments
         /\ \E t \in BOOLEAN :
              objects' = [objects EXCEPT
                            !.heap[ref].totalMessagesExchanged = @ + 1,
                            !.heap[ref].terminated = @ \/ t,
                            !.op = "assign"]
    /\ UNCHANGED <<programVars, calc, lock>>

NextStore == SGet \/ SInitialize \/ SUpsert \/ SAssign

SpecStore == InitStore /\ [][NextStore]_vars

(***************************************************************************)
(* The detector on its own, on every text of up to MaxWords words.         *)
(***************************************************************************)
MaxWords == 5

DetectorWords ==
    {"account", "blocked", "KYC", "otp", "http://bad.example/x.", "9876543210"}

DetectorTexts == UNION {[1..n -> DetectorWords] : n \in 0..MaxWords}

InitDetect ==
    /\ InitCommon /\ llm = FALSE
    /\ objects = NoObjects /\ lock = NoHolder
    /\ \E text \in DetectorTexts :
          calc = [stage |-> "args", a |-> text, b |-> << >>, c |-> << >>,
                  out |-> << >>]

Detect ==
    /\ calc.stage = "args"
    /\ calc' = [calc EXCEPT !.stage = "detected",
                            !.out = detect_scam_intent(calc.a)]
    /\ UNCHANGED <<programVars, objects, lock>>

NextDetect == Detect

SpecDetect == InitDetect /\ [][NextDetect]_vars

(***************************************************************************)
(* The template picker on its own, run in two processes.  A process has a  *)
(* hash seed of its own (the seed of the built-in hash of str); sha256,    *)
(* which _pick_from_templates uses, does not read it.                      *)
(***************************************************************************)
MaxHashSeed == 1

HashSeeds == 0..MaxHashSeed

\* A picker that indexes with the built-in hash of the process.
PickSeeded(seed, strategy, state) ==
    LET options == StrategyTemplates(strategy)
        index == (TemplateHash[state.totalMessagesExchanged]
                              [StrategyIndex(strategy) + 1] + seed)
                     % Len(options)
        reply == options[index + 1]
    IN IF reply = state.lastReply
       THEN options[((index + 1) % Len(options)) + 1]
       ELSE reply

\* _pick_from_templates called in a process with the given hash seed
PickInProcess(seed, strategy, state) == _pick_from_templates(strategy, state)

InitPick ==
    /\ InitCommon /\ llm = FALSE
    /\ objects = NoObjects /\ lock = NoHolder
    /\ \E strategy \in StrategySet, n \in 1..Len(TemplateHash),
          first \in HashSeeds, second \in HashSeeds :
          \E last \in {NoneStr} \cup {StrategyTemplates(strategy)[i] :
                                         i \in 1..Len(StrategyTemplates(strategy))} :
             calc = [stage |-> "args",
                     a |-> [InitialState("s1") EXCEPT
                              !.totalMessagesExchanged = n, !.lastReply = last],
                     b |-> strategy,
                     c |-> <<first, second>>,
                     out |-> << >>]

\* The same call in each of the two processes.
Pick ==
    /\ calc.stage = "args"
    /\ calc' = [calc EXCEPT
                  !.stage = "picked",
                  !.out = <<PickInProcess(calc.c[1], calc.b, calc.a),
                            PickInProcess(calc.c[2], calc.b, calc.a)>>]
    /\ UNCHANGED <<programVars, objects, lock>>

NextPick == Pick

SpecPick == InitPick /\ [][NextPick]_vars

(***************************************************************************)
(* The lock of the store (store.py 11) in concurrent handlers.  "with      *)
(* self._lock" is two steps: the handler waits until it takes the lock,    *)
(* then runs the body and leaves the block, which releases the lock.       *)
(* Between the blocks the handler works on its own copy: build_agent_reply *)
(* with its calls of the generation service, then send_final_callback.     *)
(***************************************************************************)
MaxLockRequests == 1  \* requests each handler serves

\* The positions at which a handler waits at, and is inside, a with block.
Waiting == {"get_wait", "initialize_wait", "upsert_wait"}

Inside == {"get", "initialize", "upsert"}

\* Leaving the with block without releasing the lock.
KeepLock(h) == lock' = lock

\* The end of a with block.
ReleaseLock(h) == lock' = NoHolder

InitLock ==
    /\ InitCommon /\ llm = FALSE
    /\ calc = NoCalc /\ objects = NoObjects /\ lock = NoHolder

\* A request arrives and its handler reaches store.get (main.py 201).
LBegin(h) ==
    /\ pc[h] = "idle"
    /\ served[h] < MaxLockRequests
    /\ \E req \in ConcRequests :
         /\ PathOf(req) = "normal"
         /\ hreq' = [hreq EXCEPT ![h] = req]
    /\ pc' = [pc EXCEPT ![h] = "get_wait"]
    /\ UNCHANGED <<sessions, callbackLog, response, llm, reqCount, lastReq,
                   local, served, extracted, streak, calc, objects, lock>>

\* "with self._lock:" of get, initialize and upsert
LAcquire(h) ==
    /\ pc[h] \in Waiting
    /\ lock = NoHolder
    /\ lock' = h
    /\ pc' = [pc EXCEPT ![h] = CASE pc[h] = "get_wait" -> "get"
                                 [] pc[h] = "initialize_wait" -> "initialize"
                                 [] pc[h] = "upsert_wait" -> "upsert"]
    /\ UNCHANGED <<sessions, callbackLog, response, llm, reqCount, lastReq,
                   local, hreq, served, extracted, streak, calc, objects>>

\* store.py 16-19
LGet(h) ==
    /\ pc[h] = "get"
    /\ LET state == StoreGet(sessions, StripId(hreq[h].sessionId))
       IN IF state = Absent
          THEN /\ pc' = [pc EXCEPT ![h] = "initialize_wait"]
               /\ local' = local
          ELSE /\ pc' = [pc EXCEPT ![h] = "generate"]
               /\ local' = [local EXCEPT ![h] = state]
    /\ ReleaseLock(h)
    /\ UNCHANGED <<sessions, callbackLog, response, llm, reqCount, lastReq,
                   hreq, served, extracted, streak, calc, objects>>

\* store.py 27-41
LInitialize(h) ==
    /\ pc[h] = "initialize"
    /\ sessions' = StoreInitialize(sessions, StripId(hreq[h].sessionId))
    /\ local' = [local EXCEPT ![h] = InitialState(StripId(hreq[h].sessionId))]
    /\ pc' = [pc EXCEPT ![h] = "generate"]
    /\ ReleaseLock(h)
    /\ UNCHANGED <<callbackLog, response, llm, reqCount, lastReq, hreq,
                   served, extracted, streak, calc, objects>>

\* main.py 206-291, build_agent_reply and the generation service included
LGenerate(h) ==
    /\ pc[h] = "generate"
    /\ \E replied \in Reply(Receive(local[h], hreq[h]), hreq[h], llm) :
         LET state == Terminate(replied, hreq[h])
         IN /\ local' = [local EXCEPT ![h] = state]
            /\ pc' = [pc EXCEPT ![h] = IF ShouldSendCallback(state)
                                       THEN "callback" ELSE "upsert_wait"]
    /\ UNCHANGED <<sessions, callbackLog, response, llm, reqCount, lastReq,
                   hreq, served, extracted, streak, calc, objects, lock>>

\* main.py 292-295
LCallback(h) ==
    /\ pc[h] = "callback"
    /\ \E outcome \in CallbackOutcomes :
         /\ callbackLog' =
                Append(callbackLog,
                       [payload |-> FinalCallbackPayload(local[h]),
                        outcome |-> outcome])
         /\ local' = [local EXCEPT ![h] = AfterCallback(local[h], outcome)]
    /\ pc' = [pc EXCEPT ![h] = "upsert_wait"]
    /\ UNCHANGED <<sessions, response, llm, reqCount, lastReq, hreq, served,
                   extracted, streak, calc, objects, lock>>

\* store.py 23, then main.py 298
LUpsert(h) ==
    /\ pc[h] = "upsert"
    /\ sessions' = StoreUpsert(sessions, local[h])
    /\ response' = _safe_success(local[h].lastReply)
    /\ pc' = [pc EXCEPT ![h] = "idle"]
    /\ served' = [served EXCEPT ![h] = @ + 1]
    /\ ReleaseLock(h)
    /\ UNCHANGED <<callbackLog, llm, reqCount, lastReq, local, hreq,
                   extracted, streak, calc, objects>>

\* The steps of a handler at and inside the with blocks of the store.
LockStep(h) == LAcquire(h) \/ LGet(h) \/ LInitialize(h) \/ LUpsert(h)

NextLock ==
    \E h \in Handlers :
        LBegin(h) \/ LockStep(h) \/ LGenerate(h) \/ LCallback(h)

\* A thread at or inside a with block is scheduled again and again, and the
\* body of the block is straight-line code.  Nothing is assumed of the time
\* the generation service and the callback endpoint take.
SpecLock ==
    InitLock /\ [][NextLock]_vars /\ \A h \in Handlers : WF_vars(LockStep(h))

(***************************************************************************)
(* Properties.                                                             *)
(***************************************************************************)
Known(id) == sessions[id] # Absent

\* A request was served in this step.
Served == reqCount' = reqCount + 1

\* The session a served request finds (a fresh one when unseen) and leaves.
Before(id) == IF sessions[id] = Absent THEN InitialState(id) ELSE sessions[id]

IntelFields ==
    {"bankAccounts", "upiIds", "phishingLinks", "phoneNumbers",
     "suspiciousKeywords"}

\* Every value of every field of intelligence a is in the same field of b.
IntelSubset(a, b) == \A f \in IntelFields : a[f] \subseteq b[f]

StructuredIntel(state) ==
    state.extractedIntelligence.bankAccounts
    \cup state.extractedIntelligence.upiIds
    \cup state.extractedIntelligence.phishingLinks
    \cup state.extractedIntelligence.phoneNumbers

\* C1: once the stored session has terminated=true, every later stored
\* state of that session has terminated=true, whatever requests follow
\* (counterpart, operator, or the sanitised fallback).
C1_TerminatedIsAbsorbing ==
    [][\A id \in SessionIds :
          (Known(id) /\ sessions[id].terminated)
              => (sessions'[id] # Absent /\ sessions'[id].terminated)]_vars

\* A terminated session that has since served a sanitised-fallback request.
C1_Witness ==
    /\ Known("s1") /\ sessions["s1"].terminated
    /\ PathOf(lastReq) = "fallback"
    /\ callbackLog # << >>
    /\ sessions["s1"].totalMessagesExchanged
          > callbackLog[1].payload.totalMessagesExchanged

C3_CallbackAtMostOnceConcurrent ==
    \A id \in SessionIds :
        Cardinality({i \in DOMAIN callbackLog :
                        callbackLog[i].payload.sessionId = id}) <= 1

\* C4: on the turn that brings totalMessagesExchanged to the configured
\* maximum with scamConfirmed true, the session is terminated, even with no
\* structured intelligence, and exactly one callback attempt has been made.
C4_MaxTurnsTerminates ==
    \A id \in SessionIds :
        (/\ Known(id)
         /\ PathOf(lastReq) = "normal"
         /\ sessions[id].scamConfirmed
         /\ sessions[id].totalMessagesExchanged = MaxTurns)
            => (sessions[id].terminated /\ Len(callbackLog) = 1)

C8_SentImpliesTerminated ==
    \A id \in SessionIds :
        Known(id) => (sessions[id].finalCallbackSent => sessions[id].terminated)

C8_Witness ==
    /\ Known("s1") /\ sessions["s1"].finalCallbackSent
    /\ callbackLog # << >> /\ callbackLog[1].outcome = "2xx"

\* C9: in every stored session state terminated=true implies
\* scamConfirmed=true.
C9_TerminatedImpliesConfirmed ==
    \A id \in SessionIds :
        Known(id) => (sessions[id].terminated => sessions[id].scamConfirmed)

\* A terminated session confirmed by a trigger keyword alone, below the
\* threshold.
C9_Witness ==
    /\ Known("s1") /\ sessions["s1"].terminated
    /\ sessions["s1"].scamScore < ScamThreshold

\* C10: two handlers of one session that run at the same time do not
\* interleave their read-modify-write: once both are done the stored
\* session counts every request served, holds the intelligence each
\* extracted, and keeps the terminated and finalCallbackSent a handler wrote.
C10_NoLostUpdate ==
    (\A h \in Handlers : pc[h] = "idle" /\ served[h] > 0) =>
        /\ Known("s1")
        /\ sessions["s1"].totalMessagesExchanged = served[1] + served[2]
        /\ sessions["s1"].extractedIntelligence
              = merge_extraction(sessions["s1"].extractedIntelligence, extracted)
        /\ callbackLog # << >> =>
              (sessions["s1"].terminated /\ sessions["s1"].finalCallbackSent)

\* C11: the reply a turn returns contains none of the patterns of
\* _asks_for_secret and _contains_banned, whatever the session, the
\* counterpart message and the answers of the generation service.
C11_ReplyNeverAsksSecret ==
    /\ SecretAskHits(response.reply) = {}
    /\ BannedHits(response.reply) = {}

\* The generation service asked about a password at every call of an agent
\* turn and the turn answered with the fixed sentence of the final
\* guardrail.
C11_Witness ==
    /\ llm
    /\ PathOf(lastReq) = "normal" /\ lastReq.sender = "scammer"
    /\ Known("s1") /\ sessions["s1"].agentActive
    /\ response.reply = FinalGuardrailReply

\* C12: on every agent turn the strategy build_agent_reply uses, and the
\* alternate strategy of its anti-repetition step, are members of
\* STRATEGIES, whatever the advisory selector answers; and for an answer
\* that is absent or outside STRATEGIES the strategy is the one
\* _pick_deterministic_strategy gives for the same state and message.
C12_StrategyInEnumeration ==
    [][(Served /\ PathOf(lastReq') = "normal")
        => LET id == StripId(lastReq'.sessionId)
               \* the session as the reply step leaves it: its slots and
               \* its counter are those build_agent_reply was given
               state == sessions'[id]
               text == lastReq'.text
               used == state.agentNotes[2]
           IN state.agentActive =>
                /\ used \in StrategySet
                /\ AltStrategy(used) \in StrategySet
                /\ used \in {ChooseStrategy(state, text, a) :
                                a \in LlmStrategyAnswers(llm)}
                /\ \A a \in LlmStrategyAnswers(llm) :
                      a \notin StrategySet =>
                         ChooseStrategy(state, text, a)
                            = _pick_deterministic_strategy(state, text)
                /\ ~llm => used = _pick_deterministic_strategy(state, text)]_vars

\* With the generation service configured, a turn used the PIN-screen
\* strategy, which only the deterministic procedure can have chosen.
C12_Witness ==
    /\ llm
    /\ PathOf(lastReq) = "normal" /\ lastReq.sender = "scammer"
    /\ lastReq.text = MsgOtp
    /\ Known("s1") /\ sessions["s1"].agentActive
    /\ sessions["s1"].agentNotes = <<"Strategy", "TECHNICAL_STALL_PIN_ISSUE">>

\* C13: without an advisory answer the strategy of an agent turn follows
\* the priority order: a secret-demanding term in the counterpart message
\* gives the PIN-screen stall, even with a payment-collect term present or
\* slots missing; otherwise a payment-collect term gives the payment-handle
\* strategy; otherwise the strategy mapped to the first missing slot;
\* otherwise, with no slot missing, STRATEGIES[totalTurns mod 6].
C13_StrategyPriority ==
    [][(Served /\ PathOf(lastReq') = "normal" /\ ~llm)
        => LET id == StripId(lastReq'.sessionId)
               after == sessions'[id]
               t == Lower(lastReq'.text)
               used == after.agentNotes[2]
               \* the slots as they stand when the reply is built
               slots == after.missingSlots
               turns == after.totalMessagesExchanged
           IN after.agentActive =>
                /\ DemandsSecret(t) => used = "TECHNICAL_STALL_PIN_ISSUE"
                /\ (~DemandsSecret(t) /\ MentionsCollect(t))
                      => used = "UPI_COLLECT_REQUEST_CHECK"
                /\ (~DemandsSecret(t) /\ ~MentionsCollect(t) /\ slots # << >>)
                      => used = SlotStrategy(slots[1])
                /\ (~DemandsSecret(t) /\ ~MentionsCollect(t) /\ slots = << >>)
                      => used = STRATEGIES[(turns % 6) + 1]]_vars

\* A turn on a session with no slot missing (a message with a payment
\* handle has filled them) whose message has neither kind of term: the
\* round-robin strategy was used.
C13_Witness ==
    /\ ~llm
    /\ PathOf(lastReq) = "normal" /\ lastReq.sender = "scammer"
    /\ lastReq.text = MsgHello
    /\ Known("s1") /\ sessions["s1"].agentActive
    /\ sessions["s1"].missingSlots = << >>
    /\ sessions["s1"].agentNotes
          = <<"Strategy",
              STRATEGIES[(sessions["s1"].totalMessagesExchanged % 6) + 1]>>

\* C14: each of the five intelligence sets of a stored session only grows:
\* a value present after one turn is present after every later turn,
\* turns after termination and sanitised-fallback requests included.
C14_IntelligenceGrows ==
    [][\A id \in SessionIds :
          Known(id) =>
             /\ sessions'[id] # Absent
             /\ IntelSubset(sessions[id].extractedIntelligence,
                            sessions'[id].extractedIntelligence)]_vars

\* A terminated session that has gained a payment handle since its
\* callback and still holds the phone number it reported.
C14_Witness ==
    /\ Known("s1") /\ sessions["s1"].terminated
    /\ Len(callbackLog) = 1
    /\ callbackLog[1].payload.extractedIntelligence.phoneNumbers = {"9876543210"}
    /\ callbackLog[1].payload.extractedIntelligence.upiIds = {}
    /\ "9876543210" \in sessions["s1"].extractedIntelligence.phoneNumbers
    /\ sessions["s1"].extractedIntelligence.upiIds = {"scam@upi"}

\* C15: merge_extraction is idempotent, commutative and associative, field
\* by field, on the records of a bounded set: merge(a, merge(a,b)) =
\* merge(a,b), merge(a,b) = merge(b,a) and merge(a, merge(b,c)) =
\* merge(merge(a,b), c).
C15_MergeAlgebra ==
    calc.stage \in {"twice", "swapped", "grouped"} =>
        \A f \in IntelFields : calc.out[1][f] = calc.out[2][f]

\* merge(a, merge(a, b)) computed for an a whose phone list repeats a number
\* and a b that brings a smaller one: the result is sorted, without the
\* duplicate.
C15_Witness ==
    /\ calc.stage = "twice"
    /\ calc.a.phoneNumbers = <<"9876543210", "9876543210">>
    /\ calc.a.suspiciousKeywords = <<"upi", "otp">>
    /\ calc.b.phoneNumbers = <<"12345678901234567890">>
    /\ calc.out[1].phoneNumbers = <<"12345678901234567890", "9876543210">>
    /\ calc.out[1].suspiciousKeywords = <<"otp", "upi">>

\* A request was served on the normal path with sender "scammer".
CounterpartTurn ==
    Served /\ PathOf(lastReq') = "normal" /\ lastReq'.sender = "scammer"

C19_MissingSlotsRecomputed ==
    LET SlotField(slot) ==
            CASE slot = "upi" -> "upiIds"
              [] slot = "phone" -> "phoneNumbers"
              [] slot = "phishing" -> "phishingLinks"
              [] slot = "bank" -> "bankAccounts"
              [] slot = "suspicious" -> "suspiciousKeywords"
        Expected(state) ==
            LET Empty(slot) == state.extractedIntelligence[SlotField(slot)] = {}
            IN SelectSeq(<<"upi", "phone", "phishing", "bank", "suspicious">>,
                         Empty)
    IN /\ InitialState("s1").missingSlots = Expected(InitialState("s1"))
       /\ \A id \in SessionIds :
             Known(id) => sessions[id].missingSlots = Expected(sessions[id])

\* A session holding a phone number and keywords, as a sanitised-fallback
\* request has left it.
C19_Witness ==
    /\ Known("s1")
    /\ sessions["s1"].missingSlots = <<"upi", "phishing", "bank">>
    /\ PathOf(lastReq) = "fallback"

C21_StoreStateIsPrivate ==
    [][objects'.op = "assign" =>
          \A id \in SessionIds :
             LET after ==
                     IF objects'.table[id] = 0 THEN Absent
                     ELSE objects'.heap[objects'.table[id]]
             IN after = Stored(id)]_vars

C23_RecentRingsFollowTurns ==
    [][(Served /\ PathOf(lastReq') = "normal") =>
          LET state == sessions'[StripId(lastReq'.sessionId)]
              scammer == state.recentScammer
              honeypot == state.recentHoneypot
          IN /\ Len(scammer) <= 3 /\ Len(honeypot) <= 3
             /\ honeypot # << >> /\ honeypot[Len(honeypot)] = response'.reply
             /\ lastReq'.sender = "scammer" =>
                   /\ scammer # << >>
                   /\ scammer[Len(scammer)] = lastReq'.text]_vars

C26_OnlyCounterpartTerminates ==
    [][/\ \A id \in SessionIds :
             (/\ sessions'[id] # Absent
              /\ ~Before(id).terminated
              /\ sessions'[id].terminated) => CounterpartTurn
       /\ (Served /\ PathOf(lastReq') = "normal" /\ lastReq'.sender = "user")
             => callbackLog' = callbackLog]_vars

\* A request was served on the normal path with sender "user".
OperatorTurn ==
    Served /\ PathOf(lastReq') = "normal" /\ lastReq'.sender = "user"

\* C27: a request of the operator leaves scamScore, scamConfirmed,
\* agentActive, extractedIntelligence, missingSlots, turnsSinceChange and
\* lastScammerMessage of the stored session as they were; of the other
\* fields only totalMessagesExchanged, lastReply, agentNotes, terminated
\* and finalCallbackSent can differ.
C27_OperatorTurnKeepsAnalysis ==
    [][OperatorTurn =>
          LET id == StripId(lastReq'.sessionId)
          IN \A f \in DOMAIN InitialState(id)
                      \ {"totalMessagesExchanged", "lastReply", "agentNotes",
                         "terminated", "finalCallbackSent"} :
                sessions'[id][f] = Before(id)[f]]_vars

\* An operator message holding a trigger keyword, served in a session that
\* a counterpart message had left unconfirmed.
C27_Witness ==
    /\ PathOf(lastReq) = "normal" /\ lastReq.sender = "user"
    /\ lastReq.text = MsgOtp
    /\ Known("s1")
    /\ sessions["s1"].totalMessagesExchanged = 2
    /\ sessions["s1"].lastScammerMessage = MsgHello
    /\ ~sessions["s1"].scamConfirmed
    /\ sessions["s1"].extractedIntelligence = EmptyIntelligence

\* C28: the reply of a request served against a session, on the normal
\* path or on the sanitised-fallback path, differs from the reply of the
\* turn before it in that session, and the stored lastReply is the reply
\* just returned.
C28_ReplyNeverRepeats ==
    [][(Served /\ PathOf(lastReq') \in {"normal", "fallback"}) =>
          LET id == StripId(lastReq'.sessionId)
          IN /\ response'.reply # Before(id).lastReply
             /\ sessions'[id].lastReply = response'.reply]_vars

\* The second of two turns with the agent inactive: the fixed sentence of
\* line 264 would repeat, and the sentence of line 268 is returned.
C28_Witness ==
    /\ reqCount >= 2
    /\ PathOf(lastReq) = "normal"
    /\ Known("s1") /\ ~sessions["s1"].agentActive
    /\ response.reply = "I need a moment to check."
    /\ sessions["s1"].lastReply = response.reply

\* A request was served on the normal path and left the agent active.
ActiveTurn ==
    /\ Served /\ PathOf(lastReq') = "normal"
    /\ sessions'[StripId(lastReq'.sessionId)].agentActive

\* C29 as stated: the reply of every turn with the agent active holds a
\* question mark and a verification keyword.
C29_ActiveReplyProbes ==
    [][ActiveTurn => _asks_for_details(response'.reply)]_vars

\* C29, amended: the reply of a turn with the agent active holds a question
\* mark and a verification keyword, or is the fourth template of
\* ASK_OFFICIAL_LINK_TICKET, which has the keywords and no question mark,
\* or is the sentence "I need a moment to check." given in place of a
\* composed reply that equals the reply of the turn before.
C29_ActiveReplyProbesOrOfficialTemplate ==
    [][ActiveTurn =>
          LET last == Before(StripId(lastReq'.sessionId)).lastReply
              official == StrategyTemplates("ASK_OFFICIAL_LINK_TICKET")[4]
          IN \/ _asks_for_details(response'.reply)
             \/ response'.reply = official
             \/ /\ response'.reply = "I need a moment to check."
                /\ _asks_for_details(last) \/ last = official]_vars

\* The must-probe check replaced a reply without a keyword by the fourth
\* official-link template, which was returned.
C29_Witness ==
    /\ PathOf(lastReq) = "normal"
    /\ Known("s1") /\ sessions["s1"].agentActive
    /\ sessions["s1"].agentNotes = AgentNotes("TECHNICAL_STALL_PIN_ISSUE")
    /\ response.reply = StrategyTemplates("ASK_OFFICIAL_LINK_TICKET")[4]
    /\ ~_asks_for_details(response.reply)

====
